---- MODULE Spec2Model ----
(***************************************************************************)
(* The tax engine of TaxSage-AI (src/lib/taxUtils.ts), FY 2024-25.         *)
(*                                                                         *)
(* A JavaScript number holding an amount of money is modelled exactly, as  *)
(* a fixed-point value [w, u] = w + u/Unit rupees with 0 <= u < Unit.  The *)
(* slab rates are multiples of 1/20, the surcharge rates multiples of      *)
(* 1/100 and the cess rate is 1/25, so on integer incomes every amount the *)
(* engine computes is a multiple of 1/Unit and no rounding happens before  *)
(* the final Math.round.  Incomes, slab bounds and thresholds are integers *)
(* of rupees.  Rates are integers of percent.                              *)
(***************************************************************************)
EXTENDS Integers, Sequences, FiniteSets

\* ------------------------------------------------------------------------
\* Bounds of the model
\* ------------------------------------------------------------------------

\* Gross incomes are drawn from KeyIncomes, each shifted by -MaxDelta..MaxDelta.
MaxDelta == 2

\* The largest "small income increase" past a threshold (the spec's e = 100).
SmallIncrease == 100

\* The longest sequence of calls one behaviour makes.
MaxCalls == 3

\* ------------------------------------------------------------------------
\* State
\* ------------------------------------------------------------------------

\* tables:  the module-level configuration objects of taxUtils.ts (mutable
\*          JavaScript arrays and objects bound to const names);
\* args:    the inputs of the current (or next) calculateTaxPayable call;
\* called:  whether a call has returned;
\* result:  the value the last call returned;
\* locals:  the locals of the last call at its return;
\* history: the calls made so far, each with its inputs and its return value.
VARIABLES tables, args, called, result, locals, history

callVars == <<tables, args, called, result, locals, history>>

\* slabCall: one direct calculateSlabTax call: its arguments, whether it has
\*           returned, and the tax it returned.
VARIABLES slabCall

\* request:  a report or AI-suggestion request: the validated income, the
\*           deductions text and the path that processes it;
\* estimate: whether the request has been processed, and what the handler
\*           computed: estimatedDeductionsOld, taxOld and taxNew.
VARIABLES request, estimate

helperVars == <<slabCall, request, estimate>>

taxVars == <<callVars, helperVars>>

\* loading, user, session: the three useState cells of AuthProvider;
\* listener:       the registered onAuthStateChange callback, if any, with the
\*                 value of loading its closure captured;
\* fetches:        the fetchSession calls in flight, each named by the value of
\*                 loading its closure captured;
\* providerEffect: whether AuthProvider's effect is due (mount, or loading changed);
\* route:          the page the router shows;
\* rendered:       what the last render put on the screen;
\* routeEffect:    ProtectedRoute's effect if it is due, with the user and loading
\*                 values of the render that scheduled it;
\* redirectIssued: whether the effect of ProtectedRoute's latest [user, loading]
\*                 values called router.push("/login");
\* navigating:     whether a router.push("/login") is yet to change the page.
VARIABLES loading, user, session, listener, fetches, providerEffect,
          route, rendered, routeEffect, redirectIssued, navigating

authVars == <<loading, user, session, listener, fetches, providerEffect,
              route, rendered, routeEffect, redirectIssued, navigating>>

vars == <<taxVars, authVars>>

\* ------------------------------------------------------------------------
\* Money: exact fixed-point arithmetic
\* ------------------------------------------------------------------------

\* Denominator of every amount: slab rate (1/20) x surcharge rate (1/100) x cess (1/25).
Unit == 20 * 100 * 25

Rupees(n) == [w |-> n, u |-> 0]

Zero == Rupees(0)

MLt(a, b) == a.w < b.w \/ (a.w = b.w /\ a.u < b.u)

MLe(a, b) == a.w < b.w \/ (a.w = b.w /\ a.u <= b.u)

MMax(a, b) == IF MLt(a, b) THEN b ELSE a

MMin(a, b) == IF MLt(b, a) THEN b ELSE a

MAdd(a, b) ==
    [w |-> a.w + b.w + ((a.u + b.u) \div Unit), u |-> (a.u + b.u) % Unit]

\* a - b; the result may be negative: w is then negative and u stays in 0..Unit-1.
MSub(a, b) ==
    IF a.u >= b.u THEN [w |-> a.w - b.w, u |-> a.u - b.u]
    ELSE [w |-> a.w - b.w - 1, u |-> a.u - b.u + Unit]

\* n * (pct/100) for an integer n >= 0 of rupees.
IntTimesPct(n, pct) ==
    [w |-> (n * pct) \div 100, u |-> ((n * pct) % 100) * (Unit \div 100)]

\* a * (pct/100) for an amount a >= 0.
MTimesPct(a, pct) ==
    LET prod == a.w * pct
        frac == (prod % 100) * (Unit \div 100) + ((a.u * pct) \div 100)
    IN  [w |-> (prod \div 100) + (frac \div Unit), u |-> frac % Unit]

\* A plausible slip: Math.floor for Math.round.
MathFloor(a) == a.w

\* Math.round: the nearest integer, halves rounded up.
MathRound(a) == a.w + (IF 2 * a.u >= Unit THEN 1 ELSE 0)

IMax(x, y) == IF x >= y THEN x ELSE y

IMin(x, y) == IF x <= y THEN x ELSE y

\* ------------------------------------------------------------------------
\* Configuration tables
\* ------------------------------------------------------------------------

\* JavaScript's Infinity: above every income and every finite limit of the tables.
Infinity == 2000000000

\* The tables as the module's top-level statements create them.
\* Rates and caps in percent.
SurchargeRatesAtLoad ==
    << [incomeLimit |-> 5000000,  rate |-> 0,  capForSpecialIncome |-> 0,  capForNewRegime |-> 0],
       [incomeLimit |-> 10000000, rate |-> 10, capForSpecialIncome |-> 10, capForNewRegime |-> 10],
       [incomeLimit |-> 20000000, rate |-> 15, capForSpecialIncome |-> 15, capForNewRegime |-> 15],
       [incomeLimit |-> 50000000, rate |-> 25, capForSpecialIncome |-> 15, capForNewRegime |-> 25],
       [incomeLimit |-> Infinity, rate |-> 37, capForSpecialIncome |-> 15, capForNewRegime |-> 25] >>

\* Health and education cess, in percent.
CessRateAtLoad == 4

TaxDataAtLoad ==
    [ newRegime |->
        [ slabs |-> << [rangeMin |-> 0,       rangeMax |-> 300000,   rate |-> 0],
                       [rangeMin |-> 300001,  rangeMax |-> 600000,   rate |-> 5],
                       [rangeMin |-> 600001,  rangeMax |-> 900000,   rate |-> 10],
                       [rangeMin |-> 900001,  rangeMax |-> 1200000,  rate |-> 15],
                       [rangeMin |-> 1200001, rangeMax |-> 1500000,  rate |-> 20],
                       [rangeMin |-> 1500001, rangeMax |-> Infinity, rate |-> 30] >>,
          basicExemption |-> 300000,
          rebateLimit |-> 700000,
          rebateAmount |-> 25000,
          standardDeduction |-> 50000 ],
      oldRegime |->
        [ slabs |-> << [rangeMin |-> 0,       rangeMax |-> 250000,   rate |-> 0],
                       [rangeMin |-> 250001,  rangeMax |-> 500000,   rate |-> 5],
                       [rangeMin |-> 500001,  rangeMax |-> 1000000,  rate |-> 20],
                       [rangeMin |-> 1000001, rangeMax |-> Infinity, rate |-> 30] >>,
          basicExemption |-> 250000,
          rebateLimit |-> 500000,
          rebateAmount |-> 12500,
          standardDeduction |-> 50000 ] ]

\* A plausible slip: the last surcharge tier written with a New regime cap
\* above its 37% rate.
TablesAtLoadCapAboveRate ==
    [ surchargeRates |-> [SurchargeRatesAtLoad EXCEPT ![5].capForNewRegime = 40],
      cessRate |-> CessRateAtLoad,
      taxData |-> TaxDataAtLoad ]

TablesAtLoad ==
    [ surchargeRates |-> SurchargeRatesAtLoad,
      cessRate |-> CessRateAtLoad,
      taxData |-> TaxDataAtLoad ]

\* What the functions read through the module-level names.
surchargeRatesFY2024_25 == tables.surchargeRates

CESS_RATE == tables.cessRate

taxDataFY2024_25 == tables.taxData

\* ------------------------------------------------------------------------
\* calculateSlabTax
\* ------------------------------------------------------------------------

\* A plausible slip: the inclusive lower bound is used without the -1 adjustment.
SlabMinUnadjusted(slab) == slab.rangeMin

\* The slab's lower bound as an exclusive bound ("adjust for inclusive lower bound").
SlabMin(slab) == IF slab.rangeMin = 0 THEN 0 ELSE slab.rangeMin - 1

RECURSIVE SlabLoop(_, _, _, _, _)
\* The for loop of calculateSlabTax from slab i on, with its locals tax and
\* incomeProcessed; the value is tax when the loop ends or breaks.
SlabLoop(taxableIncome, slabs, i, tax, incomeProcessed) ==
    IF i > Len(slabs) THEN tax
    ELSE
        LET slab == slabs[i]
            slabMin == SlabMin(slab)
            slabMax == slab.rangeMax
            incomeInSlab == IMin(taxableIncome, slabMax) - IMax(incomeProcessed, slabMin)
            tax2 == IF incomeInSlab > 0
                    THEN MAdd(tax, IntTimesPct(incomeInSlab, slab.rate))
                    ELSE tax
        IN  IF taxableIncome <= slabMin THEN tax
            ELSE IF taxableIncome <= slabMax THEN tax2
            ELSE SlabLoop(taxableIncome, slabs, i + 1, tax2, slabMax)

\* A plausible slip: the whole income taxed at the rate of the slab it falls in.
calculateSlabTaxTopRate(taxableIncome, slabs) ==
    LET hit == { i \in 1..Len(slabs) : taxableIncome <= slabs[i].rangeMax }
        first == CHOOSE i \in hit : \A j \in hit : i <= j
    IN  IntTimesPct(IMax(0, taxableIncome), slabs[first].rate)

\* A plausible slip: the income above the last bracket taxed at the last rate.
calculateSlabTaxResidual(taxableIncome, slabs) ==
    LET last == slabs[Len(slabs)]
    IN  MAdd(MMax(Zero, SlabLoop(taxableIncome, slabs, 1, Zero, 0)),
             IntTimesPct(IMax(0, taxableIncome - last.rangeMax), last.rate))

calculateSlabTax(taxableIncome, slabs) ==
    MMax(Zero, SlabLoop(taxableIncome, slabs, 1, Zero, 0))

\* ------------------------------------------------------------------------
\* calculateSurcharge
\* ------------------------------------------------------------------------

RECURSIVE RateLoop(_, _, _, _)
\* The first for loop of calculateSurcharge from tier i on; the value is
\* applicableRate (percent) when the loop ends or breaks.
RateLoop(totalIncome, regime, i, applicableRate) ==
    IF i > Len(surchargeRatesFY2024_25) THEN applicableRate
    ELSE
        LET rateInfo == surchargeRatesFY2024_25[i]
            capped == IF regime = "new"
                      THEN IMin(rateInfo.rate, rateInfo.capForNewRegime)
                      ELSE rateInfo.rate
        IN  IF totalIncome <= rateInfo.incomeLimit THEN capped
            ELSE IF rateInfo.incomeLimit = Infinity
                 THEN RateLoop(totalIncome, regime, i + 1, capped)
                 ELSE RateLoop(totalIncome, regime, i + 1, applicableRate)

\* A plausible slip: incomeLimit read as the tier's lower bound, so that an
\* income gets the rate of the last tier whose limit lies below it.
ApplicableRateOfTierBelow(totalIncome, regime) ==
    LET below == { i \in 1..Len(surchargeRatesFY2024_25) :
                     surchargeRatesFY2024_25[i].incomeLimit < totalIncome }
        last == CHOOSE i \in below : \A j \in below : j <= i
    IN  IF below = {} THEN 0
        ELSE IF regime = "new"
             THEN IMin(surchargeRatesFY2024_25[last].rate,
                       surchargeRatesFY2024_25[last].capForNewRegime)
             ELSE surchargeRatesFY2024_25[last].rate

\* A plausible slip: incomeLimit taken as an exclusive upper bound
\* (totalIncome < incomeLimit), so that an income at a limit gets the next tier.
ApplicableRateExclusive(totalIncome, regime) ==
    LET hit == { i \in 1..Len(surchargeRatesFY2024_25) :
                   totalIncome < surchargeRatesFY2024_25[i].incomeLimit }
        first == CHOOSE i \in hit : \A j \in hit : i <= j
    IN  IF regime = "new"
        THEN IMin(surchargeRatesFY2024_25[first].rate,
                  surchargeRatesFY2024_25[first].capForNewRegime)
        ELSE surchargeRatesFY2024_25[first].rate

\* A plausible slip: capForNewRegime not applied.
ApplicableRateUncapped(totalIncome, regime) == RateLoop(totalIncome, "old", 1, 0)

ApplicableRate(totalIncome, regime) == RateLoop(totalIncome, regime, 1, 0)

\* A plausible slip: threshold * 0.05 for threshold * 1.05, which leaves every
\* relief window empty.
WindowEndFraction(threshold) == threshold \div 20

\* A plausible slip: threshold * 2.05 for threshold * 1.05, which puts the
\* thresholds 10,000,000 and 20,000,000 inside the window of the tier below.
WindowEndDoubled(threshold) == (threshold \div 20) * 41

\* threshold * 1.05; every finite threshold is a multiple of 20, so this is exact.
WindowEnd(threshold) == (threshold \div 20) * 21

\* A plausible slip: the upper end of the window left out.
InReliefWindowAbove(totalIncome, threshold) ==
    totalIncome > threshold

InReliefWindow(totalIncome, threshold) ==
    totalIncome > threshold /\ totalIncome <= WindowEnd(threshold)

RECURSIVE TaxPayableRun(_, _, _, _)

RECURSIVE ReliefLoopUntested(_, _, _, _, _)
\* A plausible slip: the relief subtracted without the test
\* taxIncrease > incomeIncrease.
ReliefLoopUntested(totalIncome, taxBeforeSurcharge, surcharge, regime, i) ==
    IF i > Len(surchargeRatesFY2024_25)
    THEN [surcharge |-> surcharge, reliefThreshold |-> 0, relief |-> Zero,
          nestedCalls |-> 0, nestingDepth |-> 0, nestedSurchargeCalls |-> 0,
          windowThreshold |-> 0, taxOnThreshold |-> Zero]
    ELSE IF surchargeRatesFY2024_25[i].incomeLimit = 0
            \/ surchargeRatesFY2024_25[i].incomeLimit = Infinity
            \/ ~InReliefWindow(totalIncome, surchargeRatesFY2024_25[i].incomeLimit)
    THEN ReliefLoopUntested(totalIncome, taxBeforeSurcharge, surcharge, regime, i + 1)
    ELSE
        LET threshold == surchargeRatesFY2024_25[i].incomeLimit
            nested == TaxPayableRun(threshold, 0, regime, taxDataFY2024_25)
            taxOnThreshold == nested.result.taxBeforeCess
            taxIncrease == MSub(MAdd(taxBeforeSurcharge, surcharge), taxOnThreshold)
            relief == MSub(taxIncrease, Rupees(totalIncome - threshold))
        IN  [surcharge |-> MMax(Zero, MSub(surcharge, relief)),
             reliefThreshold |-> threshold, relief |-> relief,
             nestedCalls |-> 1 + nested.locals.nestedCalls,
             nestingDepth |-> 1 + nested.locals.nestingDepth,
             nestedSurchargeCalls |-> nested.locals.surchargeCalls,
             windowThreshold |-> threshold, taxOnThreshold |-> taxOnThreshold]

RECURSIVE ReliefLoop(_, _, _, _, _)
\* The marginal-relief for loop of calculateSurcharge from tier i on.  The
\* value is the surcharge after the loop, with the threshold relief was applied
\* for (0 when no relief was applied) and the relief, and with the number of
\* calculateTaxPayableInternal calls the loop started, directly or inside such
\* a call (nestedCalls), the deepest level of call within call (nestingDepth),
\* the calculateSurcharge calls made inside those calls (nestedSurchargeCalls),
\* and the first threshold whose window held the income (windowThreshold, 0
\* when none did) with the taxOnThreshold computed for it.
ReliefLoop(totalIncome, taxBeforeSurcharge, surcharge, regime, i) ==
    IF i > Len(surchargeRatesFY2024_25)
    THEN [surcharge |-> surcharge, reliefThreshold |-> 0, relief |-> Zero,
          nestedCalls |-> 0, nestingDepth |-> 0, nestedSurchargeCalls |-> 0,
          windowThreshold |-> 0, taxOnThreshold |-> Zero]
    ELSE IF surchargeRatesFY2024_25[i].incomeLimit = 0
            \/ surchargeRatesFY2024_25[i].incomeLimit = Infinity
    THEN ReliefLoop(totalIncome, taxBeforeSurcharge, surcharge, regime, i + 1)
    ELSE IF InReliefWindow(totalIncome, surchargeRatesFY2024_25[i].incomeLimit)
    THEN
        LET threshold == surchargeRatesFY2024_25[i].incomeLimit
            nested == TaxPayableRun(threshold, 0, regime, taxDataFY2024_25)
            taxOnThreshold == nested.result.taxBeforeCess
            taxIncrease == MSub(MAdd(taxBeforeSurcharge, surcharge), taxOnThreshold)
            incomeIncrease == Rupees(totalIncome - threshold)
            relief == MSub(taxIncrease, incomeIncrease)
            rest == ReliefLoop(totalIncome, taxBeforeSurcharge, surcharge, regime, i + 1)
        IN  IF MLt(incomeIncrease, taxIncrease)
            THEN [surcharge |-> MMax(Zero, MSub(surcharge, relief)),
                  reliefThreshold |-> threshold, relief |-> relief,
                  nestedCalls |-> 1 + nested.locals.nestedCalls,
                  nestingDepth |-> 1 + nested.locals.nestingDepth,
                  nestedSurchargeCalls |-> nested.locals.surchargeCalls,
                  windowThreshold |-> threshold, taxOnThreshold |-> taxOnThreshold]
            ELSE [rest EXCEPT !.nestedCalls = @ + 1 + nested.locals.nestedCalls,
                              !.nestingDepth = IMax(@, 1 + nested.locals.nestingDepth),
                              !.nestedSurchargeCalls = @ + nested.locals.surchargeCalls,
                              !.windowThreshold = threshold,
                              !.taxOnThreshold = taxOnThreshold]
    ELSE ReliefLoop(totalIncome, taxBeforeSurcharge, surcharge, regime, i + 1)

\* A plausible slip: the early return for a non-positive tax left out.
SurchargeLocalsNoEarlyReturn(totalIncome, taxBeforeSurcharge, regime) ==
    LET applicableRate == ApplicableRate(totalIncome, regime)
        rawSurcharge == MTimesPct(taxBeforeSurcharge, applicableRate)
        after == ReliefLoop(totalIncome, taxBeforeSurcharge, rawSurcharge, regime, 1)
    IN  [applicableRate |-> applicableRate, rawSurcharge |-> rawSurcharge,
         reliefThreshold |-> after.reliefThreshold, relief |-> after.relief,
         surcharge |-> MMax(Zero, after.surcharge),
         nestedCalls |-> after.nestedCalls, nestingDepth |-> after.nestingDepth,
         rateLookedUp |-> TRUE, nestedSurchargeCalls |-> after.nestedSurchargeCalls,
         windowThreshold |-> after.windowThreshold,
         taxOnThreshold |-> after.taxOnThreshold]

\* The locals of one calculateSurcharge call at its return.
SurchargeLocals(totalIncome, taxBeforeSurcharge, regime) ==
    IF MLe(taxBeforeSurcharge, Zero)
    THEN [applicableRate |-> 0, rawSurcharge |-> Zero, reliefThreshold |-> 0,
          relief |-> Zero, surcharge |-> Zero, nestedCalls |-> 0, nestingDepth |-> 0,
          rateLookedUp |-> FALSE, nestedSurchargeCalls |-> 0,
          windowThreshold |-> 0, taxOnThreshold |-> Zero]
    ELSE
        LET applicableRate == ApplicableRate(totalIncome, regime)
            rawSurcharge == MTimesPct(taxBeforeSurcharge, applicableRate)
            after == ReliefLoop(totalIncome, taxBeforeSurcharge, rawSurcharge, regime, 1)
        IN  [applicableRate |-> applicableRate, rawSurcharge |-> rawSurcharge,
             reliefThreshold |-> after.reliefThreshold, relief |-> after.relief,
             surcharge |-> MMax(Zero, after.surcharge),
             nestedCalls |-> after.nestedCalls, nestingDepth |-> after.nestingDepth,
             rateLookedUp |-> TRUE, nestedSurchargeCalls |-> after.nestedSurchargeCalls,
             windowThreshold |-> after.windowThreshold,
             taxOnThreshold |-> after.taxOnThreshold]

calculateSurcharge(totalIncome, taxBeforeSurcharge, regime) ==
    SurchargeLocals(totalIncome, taxBeforeSurcharge, regime).surcharge

\* ------------------------------------------------------------------------
\* calculateTaxPayableInternal and calculateTaxPayable
\* ------------------------------------------------------------------------

RegimeData(regime, taxData) ==
    IF regime = "new" THEN taxData.newRegime ELSE taxData.oldRegime

\* A plausible slip: the standard deduction subtracted with neither the
\* grossIncome > 0 guard nor the clamp at 0.
IncomeAfterStdDedUnguarded(grossIncome, regimeData) ==
    grossIncome - regimeData.standardDeduction

\* A plausible slip: the standard deduction applied only to a gross income
\* above it, which leaves a smaller positive income untouched.
IncomeAfterStdDedAboveDeduction(grossIncome, regimeData) ==
    IF regimeData.standardDeduction # 0 /\ grossIncome > regimeData.standardDeduction
    THEN grossIncome - regimeData.standardDeduction
    ELSE grossIncome

\* Step 1: the standard deduction, applied only to a positive gross income.
IncomeAfterStdDed(grossIncome, regimeData) ==
    IF regimeData.standardDeduction # 0 /\ grossIncome > 0
    THEN IMax(0, grossIncome - regimeData.standardDeduction)
    ELSE grossIncome

\* A plausible slip: the deductions subtracted whatever the regime.
TaxableIncomeAnyRegime(incomeAfterStdDed, totalDeductions, regime) ==
    IMax(0, IMax(0, incomeAfterStdDed - totalDeductions))

\* A plausible slip: both clamps at 0 left out.
TaxableIncomeUnclamped(incomeAfterStdDed, totalDeductions, regime) ==
    IF regime = "old" THEN incomeAfterStdDed - totalDeductions ELSE incomeAfterStdDed

\* A plausible slip: the deductions added to the income.
TaxableIncomeAdded(incomeAfterStdDed, totalDeductions, regime) ==
    IMax(0, IF regime = "old"
            THEN IMax(0, incomeAfterStdDed + totalDeductions)
            ELSE incomeAfterStdDed)

\* Step 2: the deductions count in the Old regime only.
TaxableIncome(incomeAfterStdDed, totalDeductions, regime) ==
    IMax(0, IF regime = "old"
            THEN IMax(0, incomeAfterStdDed - totalDeductions)
            ELSE incomeAfterStdDed)

\* A plausible slip: the rebate not capped by the tax it is taken from.
RebateUncapped(taxableIncome, taxBeforeRebate, regimeData) ==
    IF /\ regimeData.rebateLimit # 0
       /\ taxableIncome <= regimeData.rebateLimit
       /\ regimeData.rebateAmount # 0
    THEN Rupees(regimeData.rebateAmount)
    ELSE Zero

\* A plausible slip: the Old regime's rebate amount used in both regimes.
RebateOldAmount(taxableIncome, taxBeforeRebate, regimeData) ==
    IF /\ regimeData.rebateLimit # 0
       /\ taxableIncome <= regimeData.rebateLimit
       /\ regimeData.rebateAmount # 0
    THEN MMin(taxBeforeRebate, Rupees(12500))
    ELSE Zero

\* A plausible slip: the rebate limit taken as an exclusive bound.
RebateBelowLimit(taxableIncome, taxBeforeRebate, regimeData) ==
    IF /\ regimeData.rebateLimit # 0
       /\ taxableIncome < regimeData.rebateLimit
       /\ regimeData.rebateAmount # 0
    THEN MMin(taxBeforeRebate, Rupees(regimeData.rebateAmount))
    ELSE Zero

\* Step 4: the rebate u/s 87A.
Rebate(taxableIncome, taxBeforeRebate, regimeData) ==
    IF /\ regimeData.rebateLimit # 0
       /\ taxableIncome <= regimeData.rebateLimit
       /\ regimeData.rebateAmount # 0
    THEN MMin(taxBeforeRebate, Rupees(regimeData.rebateAmount))
    ELSE Zero

\* A plausible slip: the income after the standard deduction used in both regimes.
IncomeForSurchargeRateAfterStdDed(grossIncome, incomeAfterStdDed, regime) ==
    incomeAfterStdDed

\* Step 5: the income that selects the surcharge tier.
IncomeForSurchargeRate(grossIncome, incomeAfterStdDed, regime) ==
    IF regime = "old" THEN grossIncome ELSE incomeAfterStdDed

\* The body of calculateTaxPayableInternal: its return value (result) and its
\* locals, with those of its calculateSurcharge call, as they stand at the return.
TaxPayableRun(grossIncome, totalDeductions, regime, taxData) ==
    LET regimeData == RegimeData(regime, taxData)
        incomeAfterStdDed == IncomeAfterStdDed(grossIncome, regimeData)
        taxableIncome == TaxableIncome(incomeAfterStdDed, totalDeductions, regime)
        taxBeforeRebate == calculateSlabTax(taxableIncome, regimeData.slabs)
        rebate == Rebate(taxableIncome, taxBeforeRebate, regimeData)
        taxAfterRebate == MMax(Zero, MSub(taxBeforeRebate, rebate))
        incomeForSurchargeRate ==
            IncomeForSurchargeRate(grossIncome, incomeAfterStdDed, regime)
        s == SurchargeLocals(incomeForSurchargeRate, taxAfterRebate, regime)
        surcharge == s.surcharge
        taxBeforeCess == MAdd(taxAfterRebate, surcharge)
        cess == MTimesPct(taxBeforeCess, CESS_RATE)
        totalTax == MAdd(taxBeforeCess, cess)
    IN  [ result |->
            [ taxableIncome |-> taxableIncome,
              taxBeforeRebate |-> taxBeforeRebate,
              rebate |-> rebate,
              taxAfterRebate |-> taxAfterRebate,
              surcharge |-> surcharge,
              cess |-> cess,
              totalTax |-> MathRound(totalTax),
              taxBeforeCess |-> taxBeforeCess ],
          locals |->
            [ incomeAfterStdDed |-> incomeAfterStdDed,
              incomeForSurchargeRate |-> incomeForSurchargeRate,
              applicableRate |-> s.applicableRate,
              rawSurcharge |-> s.rawSurcharge,
              reliefThreshold |-> s.reliefThreshold,
              relief |-> s.relief,
              nestedCalls |-> s.nestedCalls,
              nestingDepth |-> s.nestingDepth,
              rateLookedUp |-> s.rateLookedUp,
              surchargeCalls |-> 1 + s.nestedSurchargeCalls,
              windowThreshold |-> s.windowThreshold,
              taxOnThreshold |-> s.taxOnThreshold ] ]

calculateTaxPayableInternal(grossIncome, totalDeductions, regime, taxData) ==
    TaxPayableRun(grossIncome, totalDeductions, regime, taxData).result

calculateTaxPayable(grossIncome, totalDeductions, regime) ==
    calculateTaxPayableInternal(grossIncome, totalDeductions, regime, taxDataFY2024_25)

\* The locals of the outermost calculateTaxPayableInternal call at its return.
CallLocals(grossIncome, totalDeductions, regime) ==
    TaxPayableRun(grossIncome, totalDeductions, regime, taxDataFY2024_25).locals

\* ------------------------------------------------------------------------
\* The callers' inputs
\* ------------------------------------------------------------------------

Regimes == {"new", "old"}

\* The finite surcharge thresholds.
Thresholds ==
    { SurchargeRatesAtLoad[i].incomeLimit : i \in 1..Len(SurchargeRatesAtLoad) }
        \ {0, Infinity}

StdDed == TaxDataAtLoad.newRegime.standardDeduction

\* Slab bounds and rebate limits, the spec's scenarios, the thresholds, the
\* ends of the relief windows and points inside and past them; each also as
\* the gross income whose income after the standard deduction is that point.
KeyPoints ==
    {0, 250000, 300000, 500000, 600000, 700000, 900000, 1000000, 1200000, 1500000,
     11000000}
     \cup Thresholds
     \cup { WindowEnd(t) : t \in Thresholds }
     \cup { t + SmallIncrease : t \in Thresholds }
     \cup { t + 200000 : t \in Thresholds }
     \cup { t + 1000000 : t \in Thresholds }

KeyIncomes == KeyPoints \cup { p + StdDed : p \in KeyPoints }

\* Gross incomes a caller that skips validation may pass.
NegativeIncomes == {0 - 1000000, 0 - 50000}

GrossIncomes ==
    { p + d : p \in KeyIncomes \cup NegativeIncomes, d \in (0 - MaxDelta)..MaxDelta }

Deductions == {0, 100, 150000, 1000000, 5000000}

\* The inputs of the call-history specification: a rebated income, incomes in
\* the relief windows of both regimes and one past the last window.
HistoryIncomes == {600000, 5000001, 10050001, 52500001}

HistoryDeductions == {0, 1000000}

\* ------------------------------------------------------------------------
\* The state machine
\* ------------------------------------------------------------------------

\* ------------------------------------------------------------------------
\* AuthProvider and ProtectedRoute
\* ------------------------------------------------------------------------

\* null, for a user or a session.
NoUser == "null"

\* The accounts that can sign in.
Users == {"alice", "bob"}

Sessions == Users \cup {NoUser}

\* The pages that wrap their content in ProtectedRoute.
ProtectedPages == {"/report", "/deductions", "/surcharge", "/ai-suggestions"}

LoginPage == "/login"

NoListener == [registered |-> FALSE, loading |-> TRUE]

NoEffect == [due |-> FALSE, user |-> NoUser, loading |-> TRUE]

\* A plausible slip: the loader shown only while loading, without `|| !user`.
ProtectedRouteRenderLoadingOnly(l, u) ==
    IF l THEN "loader" ELSE "children"

\* The render of ProtectedRoute with useAuth() giving user u and loading l.
ProtectedRouteRender(l, u) ==
    IF l \/ u = NoUser THEN "loader" ELSE "children"

\* The screen for AuthProvider state (l, u) on page r: AuthProvider renders its
\* children only when not loading.
Render(l, u, r) ==
    IF l THEN "providerLoader"
    ELSE IF r = LoginPage THEN "loginPage"
    ELSE ProtectedRouteRender(l, u)

\* Whether ProtectedRoute is mounted.
Mounted(l, r) == ~l /\ r \in ProtectedPages

\* The state after construction: AuthProvider mounted with a protected page
\* open, its first render done and its effect due.
AuthInit(page) ==
    /\ loading = TRUE
    /\ user = NoUser
    /\ session = NoUser
    /\ listener = NoListener
    /\ fetches = {}
    /\ providerEffect = TRUE
    /\ route = page
    /\ rendered = Render(TRUE, NoUser, page)
    /\ routeEffect = NoEffect
    /\ redirectIssued = FALSE
    /\ navigating = FALSE

\* React commits the batched state updates of one handler and renders again:
\* AuthProvider's effect is due when loading changed, ProtectedRoute's when it
\* mounts or when user or loading changed.  Effects of the previous render are
\* flushed before a new render starts.
Commit(newLoading, newUser, newSession) ==
    /\ routeEffect = NoEffect
    /\ loading' = newLoading
    /\ user' = newUser
    /\ session' = newSession
    /\ providerEffect' = (providerEffect \/ newLoading # loading)
    /\ rendered' = Render(newLoading, newUser, route)
    /\ IF Mounted(newLoading, route)
          /\ (~Mounted(loading, route) \/ newUser # user \/ newLoading # loading)
       THEN /\ routeEffect' = [due |-> TRUE, user |-> newUser, loading |-> newLoading]
            /\ redirectIssued' = FALSE
       ELSE UNCHANGED <<routeEffect, redirectIssued>>

\* AuthProvider's useEffect: the previous run's cleanup unsubscribes its
\* listener, then fetchSession() starts and a listener is registered, both with
\* the loading value of the render the effect belongs to.
ProviderEffect ==
    /\ providerEffect
    /\ providerEffect' = FALSE
    /\ fetches' = fetches \cup {loading}
    /\ listener' = [registered |-> TRUE, loading |-> loading]
    /\ UNCHANGED <<loading, user, session, route, rendered, routeEffect,
                   redirectIssued, navigating>>
    /\ UNCHANGED taxVars

\* fetchSession after its await: getSession answered with currentSession
\* (null with an error) or threw; the finally block ends loading if the
\* closure's loading was true.
FetchSessionDone(closureLoading, currentSession, threw) ==
    /\ closureLoading \in fetches
    /\ fetches' = fetches \ {closureLoading}
    /\ Commit(IF closureLoading THEN FALSE ELSE loading,
              IF threw THEN user ELSE currentSession,
              IF threw THEN session ELSE currentSession)
    /\ UNCHANGED <<listener, route, navigating>>
    /\ UNCHANGED taxVars

\* The onAuthStateChange callback, for a sign-in, a sign-out, a token refresh
\* or the initial session; it ends loading if its closure's loading was true.
OnAuthStateChange(newSession) ==
    /\ listener.registered
    /\ Commit(IF listener.loading THEN FALSE ELSE loading, newSession, newSession)
    /\ UNCHANGED <<listener, fetches, route, navigating>>
    /\ UNCHANGED taxVars

\* logout(): signOut answered "Auth session missing!", the one case that
\* writes state; every other outcome leaves the state to onAuthStateChange.
LogoutSessionMissing ==
    /\ ~loading
    /\ Commit(loading, NoUser, NoUser)
    /\ UNCHANGED <<listener, fetches, route, navigating>>
    /\ UNCHANGED taxVars

\* ProtectedRoute's useEffect body.
RouteEffect ==
    /\ routeEffect.due
    /\ routeEffect' = NoEffect
    /\ IF ~routeEffect.loading /\ routeEffect.user = NoUser
       THEN redirectIssued' = TRUE /\ navigating' = TRUE
       ELSE UNCHANGED <<redirectIssued, navigating>>
    /\ UNCHANGED <<loading, user, session, listener, fetches, providerEffect,
                   route, rendered>>
    /\ UNCHANGED taxVars

\* The router completes a push to /login: the protected page unmounts.
NavigateToLogin ==
    /\ navigating
    /\ navigating' = FALSE
    /\ route' = LoginPage
    /\ rendered' = Render(loading, user, LoginPage)
    /\ routeEffect' = NoEffect
    /\ redirectIssued' = FALSE
    /\ UNCHANGED <<loading, user, session, listener, fetches, providerEffect>>
    /\ UNCHANGED taxVars

\* The visitor opens a protected page, from the login page or from another
\* protected page: that page's ProtectedRoute mounts.
OpenProtectedPage(page) ==
    /\ route # page
    /\ ~navigating
    /\ ~routeEffect.due
    /\ route' = page
    /\ rendered' = Render(loading, user, page)
    /\ IF Mounted(loading, page)
       THEN routeEffect' = [due |-> TRUE, user |-> user, loading |-> loading]
       ELSE routeEffect' = NoEffect
    /\ redirectIssued' = FALSE
    /\ UNCHANGED <<loading, user, session, listener, fetches, providerEffect,
                   navigating>>
    /\ UNCHANGED taxVars

\* The result and locals variables before the first return.
NoResult ==
    [ taxableIncome |-> 0, taxBeforeRebate |-> Zero, rebate |-> Zero,
      taxAfterRebate |-> Zero, surcharge |-> Zero, cess |-> Zero,
      totalTax |-> 0, taxBeforeCess |-> Zero ]

NoLocals ==
    [ incomeAfterStdDed |-> 0, incomeForSurchargeRate |-> 0, applicableRate |-> 0,
      rawSurcharge |-> Zero, reliefThreshold |-> 0, relief |-> Zero,
      nestedCalls |-> 0, nestingDepth |-> 0, rateLookedUp |-> FALSE,
      surchargeCalls |-> 0, windowThreshold |-> 0, taxOnThreshold |-> Zero ]

\* A plausible slip: the slab loop written with slabs.shift(), which consumes
\* the called regime's slab table.
TablesAfterCallShifting(t, regime) ==
    IF regime = "new"
    THEN [t EXCEPT !.taxData.newRegime.slabs = IF @ = << >> THEN @ ELSE Tail(@)]
    ELSE [t EXCEPT !.taxData.oldRegime.slabs = IF @ = << >> THEN @ ELSE Tail(@)]

\* The tables after one calculateTaxPayable call: no statement of
\* calculateTaxPayable, calculateTaxPayableInternal, calculateSurcharge or
\* calculateSlabTax assigns to a table or to an element of one.
TablesAfterCall(t, regime) == t

\* ------------------------------------------------------------------------
\* estimateTotalDeductions and the handlers that call it
\* ------------------------------------------------------------------------

\* The longest deductions text, in comma-separated entries.
MaxEntries == 2

\* An entry of a deductions text after split(",") and trim(), by what the code
\* reads of it: section is the part before the colon in upper case ("" when
\* split(":") does not give two parts), amount is what parseFloat makes of the
\* digits after the colon (NaN when there are none), and contains is the set
\* of the substrings the code looks for that the entry in lower case holds.
NaN == 0 - 1

Entries ==
    { [text |-> "80C: 150000", section |-> "80C", amount |-> 150000, contains |-> {"80c"}],
      [text |-> "80C: 200000", section |-> "80C", amount |-> 200000, contains |-> {"80c"}],
      [text |-> "80C: max", section |-> "80C", amount |-> NaN, contains |-> {"80c"}],
      [text |-> "80D: 25000", section |-> "80D", amount |-> 25000, contains |-> {"80d"}],
      [text |-> "NPS: 60000", section |-> "NPS", amount |-> 60000, contains |-> {"nps"}],
      [text |-> "80G: 10000", section |-> "80G", amount |-> 10000, contains |-> {}],
      [text |-> "Standard Deduction: 50000", section |-> "STANDARD DEDUCTION",
       amount |-> 50000, contains |-> {"standard deduction"}],
      [text |-> "80C", section |-> "", amount |-> NaN, contains |-> {"80c"}],
      [text |-> "HRA", section |-> "", amount |-> NaN, contains |-> {"hra"}],
      [text |-> "standard deduction", section |-> "", amount |-> NaN,
       contains |-> {"standard deduction"}],
      [text |-> "N/A", section |-> "", amount |-> NaN, contains |-> {}] }

\* The deductions texts: one to MaxEntries entries.
DeductionTexts == UNION { [1..n -> Entries] : n \in 1..MaxEntries }

RequestIncomes == {40000, 50001, 600000, 1000000, 5000001}

Includes(d, needle) == needle \in d.contains

\* report/page.tsx: what one forEach step adds to total.
ReportEntryAmount(d) ==
    IF d.section # ""
    THEN IF d.amount = NaN THEN 0
         ELSE IF d.section = "80C" THEN IMin(d.amount, 150000)
         ELSE IF d.section = "80D" THEN IMin(d.amount, 75000)
         ELSE IF d.section = "NPS" \/ d.section = "80CCD(1B)" THEN IMin(d.amount, 50000)
         ELSE IF d.section = "STD DED" \/ d.section = "STANDARD DEDUCTION"
              THEN IMin(d.amount, 50000)
         ELSE d.amount
    ELSE IF Includes(d, "80c") THEN 150000
         ELSE IF Includes(d, "80d") THEN 25000
         ELSE IF Includes(d, "nps") \/ Includes(d, "80ccd(1b)") THEN 50000
         ELSE 0

\* report/page.tsx: whether one forEach step sets standardDeductionCovered.
ReportEntryCovers(d) ==
    IF d.section # ""
    THEN d.amount # NaN
         /\ d.section \notin {"80C", "80D", "NPS", "80CCD(1B)"}
         /\ (d.section = "STD DED" \/ d.section = "STANDARD DEDUCTION")
    ELSE /\ ~Includes(d, "80c")
         /\ ~Includes(d, "80d")
         /\ ~(Includes(d, "nps") \/ Includes(d, "80ccd(1b)"))
         /\ Includes(d, "standard deduction")

\* ai/flows/tax-saving-suggestions.ts: what one forEach step adds to total.
FlowEntryAmount(d) ==
    IF d.section # ""
    THEN IF d.amount = NaN THEN 0
         ELSE IF d.section = "80C" THEN IMin(d.amount, 150000)
         ELSE IF d.section = "80D" THEN IMin(d.amount, 75000)
         ELSE IF d.section = "NPS" \/ d.section = "80CCD(1B)" THEN IMin(d.amount, 50000)
         ELSE d.amount
    ELSE IF Includes(d, "80c") THEN 150000
         ELSE IF Includes(d, "80d") THEN 25000
         ELSE IF Includes(d, "hra") THEN 0
         ELSE IF Includes(d, "nps") \/ Includes(d, "80ccd(1b)") THEN 50000
         ELSE 0

RECURSIVE SumEntries(_, _, _)
\* The total after the forEach from entry i on, with EntryAmount the step.
SumEntries(deductions, i, path) ==
    IF i > Len(deductions) THEN 0
    ELSE (IF path = "report" THEN ReportEntryAmount(deductions[i])
          ELSE FlowEntryAmount(deductions[i]))
         + SumEntries(deductions, i + 1, path)

\* What the estimate adds after the forEach: the 50,000 standard deduction,
\* unless the text covers it (or, on the report page, the income is at most
\* 50,000).
StandardDeductionAdded(deductions, income, path) ==
    IF path = "report"
    THEN IF ~(\E i \in DOMAIN deductions : ReportEntryCovers(deductions[i]))
            /\ income > 50000
         THEN 50000 ELSE 0
    ELSE IF ~(\E i \in DOMAIN deductions : Includes(deductions[i], "standard deduction"))
         THEN 50000 ELSE 0

\* estimateTotalDeductions of the report page (path = "report", which returns 0
\* at once for the text "n/a") and of the AI flow (path = "flow").
estimateTotalDeductions(deductions, income, path) ==
    IF path = "report" /\ Len(deductions) = 1 /\ deductions[1].text = "N/A"
    THEN 0
    ELSE SumEntries(deductions, 1, path) + StandardDeductionAdded(deductions, income, path)

NoEstimate ==
    [processed |-> FALSE, estimatedDeductionsOld |-> 0, taxOld |-> NoResult,
     taxNew |-> NoResult]

NoSlabCall == [taxableIncome |-> 0, slabs |-> << >>, returned |-> FALSE, tax |-> Zero]

NoRequest == [income |-> 0, deductions |-> << >>, path |-> "report"]

\* No helper has been called directly and no request has been processed.
HelperInit ==
    /\ slabCall = NoSlabCall
    /\ request = NoRequest
    /\ estimate = NoEstimate

\* One call of calculateTaxPayable on inputs a, from entry to return.
Invoke(a) ==
    LET returned == calculateTaxPayable(a.grossIncome, a.totalDeductions, a.regime)
    IN  /\ called' = TRUE
        /\ result' = returned
        /\ locals' = CallLocals(a.grossIncome, a.totalDeductions, a.regime)
        /\ tables' = TablesAfterCall(tables, a.regime)
        /\ history' = Append(history, [args |-> a, result |-> returned])
        /\ UNCHANGED <<helperVars, authVars>>

\* Specification Spec: a caller (a form handler) holds one set of validated
\* inputs and calls calculateTaxPayable on it.
Init ==
    /\ AuthInit("/report")
    /\ HelperInit
    /\ tables = TablesAtLoad
    /\ args \in [grossIncome : GrossIncomes, totalDeductions : Deductions, regime : Regimes]
    /\ called = FALSE
    /\ result = NoResult
    /\ locals = NoLocals
    /\ history = << >>

CalculateTaxPayable ==
    /\ ~called
    /\ Invoke(args)
    /\ UNCHANGED args

Next == CalculateTaxPayable

Spec == Init /\ [][Next]_vars

\* Specification SpecHistory: callers make up to MaxCalls calls in a row, each
\* with inputs of its own.
InitHistory ==
    /\ AuthInit("/report")
    /\ HelperInit
    /\ tables = TablesAtLoad
    /\ args = [grossIncome |-> 0, totalDeductions |-> 0, regime |-> "new"]
    /\ called = FALSE
    /\ result = NoResult
    /\ locals = NoLocals
    /\ history = << >>

CallWith(grossIncome, totalDeductions, regime) ==
    /\ Len(history) < MaxCalls
    /\ args' = [grossIncome |-> grossIncome, totalDeductions |-> totalDeductions,
                regime |-> regime]
    /\ Invoke([grossIncome |-> grossIncome, totalDeductions |-> totalDeductions,
               regime |-> regime])

NextHistory ==
    \E grossIncome \in HistoryIncomes, totalDeductions \in HistoryDeductions,
       regime \in Regimes :
        CallWith(grossIncome, totalDeductions, regime)

SpecHistory == InitHistory /\ [][NextHistory]_vars

\* The bracket tables handed to calculateSlabTax directly: each regime's table
\* and each of its proper prefixes, whose last rangeMax is finite.
SlabTables ==
    { SubSeq(TaxDataAtLoad.newRegime.slabs, 1, k) :
          k \in 1..Len(TaxDataAtLoad.newRegime.slabs) }
    \cup { SubSeq(TaxDataAtLoad.oldRegime.slabs, 1, k) :
          k \in 1..Len(TaxDataAtLoad.oldRegime.slabs) }

\* Taxable incomes at, below and above every finite bracket bound.
SlabIncomes ==
    { b + e : b \in {0, 250000, 300000, 500000, 600000, 900000, 1000000, 1200000,
                     1500000, 2000000},
              e \in (0 - MaxDelta)..MaxDelta } \ {0 - 2, 0 - 1}

\* Specification SpecSlab: calculateSlabTax called on a bracket table that may
\* not cover the income.
InitSlab ==
    /\ AuthInit("/report")
    /\ slabCall \in [taxableIncome : SlabIncomes, slabs : SlabTables,
                     returned : {FALSE}, tax : {Zero}]
    /\ request = NoRequest
    /\ estimate = NoEstimate
    /\ tables = TablesAtLoad
    /\ args = [grossIncome |-> 0, totalDeductions |-> 0, regime |-> "new"]
    /\ called = FALSE
    /\ result = NoResult
    /\ locals = NoLocals
    /\ history = << >>

CalculateSlabTax ==
    /\ ~slabCall.returned
    /\ slabCall' = [slabCall EXCEPT !.returned = TRUE,
                                    !.tax = calculateSlabTax(slabCall.taxableIncome,
                                                             slabCall.slabs)]
    /\ UNCHANGED <<callVars, request, estimate, authVars>>

NextSlab == CalculateSlabTax

SpecSlab == InitSlab /\ [][NextSlab]_vars

\* Specification SpecRequest: a report or AI-suggestion request is processed:
\* the handler estimates the Old regime deductions from the text and calls
\* calculateTaxPayable for the Old regime, then for the New regime.
InitRequest ==
    /\ AuthInit("/report")
    /\ slabCall = NoSlabCall
    /\ request \in [income : RequestIncomes, deductions : DeductionTexts,
                    path : {"report", "flow"}]
    /\ estimate = NoEstimate
    /\ tables = TablesAtLoad
    /\ args = [grossIncome |-> 0, totalDeductions |-> 0, regime |-> "new"]
    /\ called = FALSE
    /\ result = NoResult
    /\ locals = NoLocals
    /\ history = << >>

ProcessRequest ==
    LET estimatedDeductionsOld ==
            estimateTotalDeductions(request.deductions, request.income, request.path)
        oldArgs == [grossIncome |-> request.income,
                    totalDeductions |-> estimatedDeductionsOld, regime |-> "old"]
        newArgs == [grossIncome |-> request.income, totalDeductions |-> 0,
                    regime |-> "new"]
        taxOld == calculateTaxPayable(request.income, estimatedDeductionsOld, "old")
        taxNew == calculateTaxPayable(request.income, 0, "new")
    IN  /\ ~estimate.processed
        /\ estimate' = [processed |-> TRUE,
                        estimatedDeductionsOld |-> estimatedDeductionsOld,
                        taxOld |-> taxOld, taxNew |-> taxNew]
        /\ called' = TRUE
        /\ args' = newArgs
        /\ result' = taxNew
        /\ locals' = CallLocals(request.income, 0, "new")
        /\ tables' = TablesAfterCall(TablesAfterCall(tables, "old"), "new")
        /\ history' = history \o << [args |-> oldArgs, result |-> taxOld],
                                    [args |-> newArgs, result |-> taxNew] >>
        /\ UNCHANGED <<slabCall, request, authVars>>

NextRequest == ProcessRequest

SpecRequest == InitRequest /\ [][NextRequest]_vars

\* Specification SpecAuth: the auth components under any interleaving of
\* session fetches, auth events, logouts, effects and navigation.
InitAuth ==
    /\ \E page \in ProtectedPages : AuthInit(page)
    /\ HelperInit
    /\ tables = TablesAtLoad
    /\ args = [grossIncome |-> 0, totalDeductions |-> 0, regime |-> "new"]
    /\ called = FALSE
    /\ result = NoResult
    /\ locals = NoLocals
    /\ history = << >>

NextAuth ==
    \/ ProviderEffect
    \/ \E closureLoading \in BOOLEAN, currentSession \in Sessions, threw \in BOOLEAN :
           FetchSessionDone(closureLoading, currentSession, threw)
    \/ \E newSession \in Sessions : OnAuthStateChange(newSession)
    \/ LogoutSessionMissing
    \/ RouteEffect
    \/ NavigateToLogin
    \/ \E page \in ProtectedPages : OpenProtectedPage(page)

SpecAuth == InitAuth /\ [][NextAuth]_vars

TypeOK ==
    /\ called \in BOOLEAN
    /\ args.regime \in Regimes
    /\ result.totalTax \in Int
    /\ Len(history) <= MaxCalls

\* ------------------------------------------------------------------------
\* Properties
\* ------------------------------------------------------------------------

\* The result of the call with the state's deductions and regime at another gross income.
ResultAt(grossIncome) ==
    calculateTaxPayable(grossIncome, args.totalDeductions, args.regime)

\* The gross income whose incomeForSurchargeRate is t, in the state's regime.
GrossForSurchargeIncome(t) == IF args.regime = "old" THEN t ELSE t + StdDed

\* C1: for each regime and each fixed totalDeductions, totalTax is
\* non-decreasing in grossIncome: no call with a smaller gross income
\* (0 <= G1 <= G2) returns a larger totalTax.
C1_Monotonic ==
    called =>
        \A g1 \in GrossIncomes :
            (0 <= g1 /\ g1 <= args.grossIncome)
                => ResultAt(g1).totalTax <= result.totalTax

\* C2: with zero deductions, for each regime, each finite threshold T and a
\* small increase e (1..SmallIncrease), the call at grossIncome T + e has
\* taxBeforeCess <= taxBeforeCess(T) + e and totalTax <= totalTax(T) + 1.04*e + 1.
C2_BoundaryRelief ==
    (called /\ args.totalDeductions = 0) =>
        \A t \in Thresholds :
            LET e == args.grossIncome - t
            IN  (1 <= e /\ e <= SmallIncrease) =>
                    /\ MLe(result.taxBeforeCess,
                           MAdd(ResultAt(t).taxBeforeCess, Rupees(e)))
                    /\ 100 * (result.totalTax - ResultAt(t).totalTax - 1) <= 104 * e

\* C2 witness: Old regime, gross income 100 past the 5,000,000 threshold,
\* where the raw 10% surcharge was cut by marginal relief.
C2_Witness ==
    /\ called
    /\ args = [grossIncome |-> 5000100, totalDeductions |-> 0, regime |-> "old"]
    /\ locals.reliefThreshold = 5000000
    /\ MLt(result.surcharge, locals.rawSurcharge)

\* C3: Old regime with deductions D > 0: for a gross income G in (T, 1.05*T],
\* taxBeforeCess(G, D) - taxBeforeCess(T, D) <= G - T.
C3_ReliefWithDeductions ==
    (called /\ args.regime = "old" /\ args.totalDeductions > 0) =>
        \A t \in Thresholds :
            InReliefWindow(args.grossIncome, t) =>
                MLe(MSub(result.taxBeforeCess, ResultAt(t).taxBeforeCess),
                    Rupees(args.grossIncome - t))

\* C4: with zero deductions, for every finite threshold T and every surcharge
\* income T + e with e > 0, also past 1.05*T, taxBeforeCess exceeds the
\* taxBeforeCess at surcharge income T by at most e.
C4_ReliefBeyondWindow ==
    (called /\ args.totalDeductions = 0) =>
        \A t \in Thresholds :
            locals.incomeForSurchargeRate > t =>
                MLe(MSub(result.taxBeforeCess,
                         ResultAt(GrossForSurchargeIncome(t)).taxBeforeCess),
                    Rupees(locals.incomeForSurchargeRate - t))

\* C5: scenario 1, calculateTaxPayable(1200000, 0, "new"), returns taxable
\* income 1,150,000, slab tax 82,500, no rebate, no surcharge, cess 3,300 and
\* totalTax 85,800.
C5_Scenario1 ==
    (called /\ args = [grossIncome |-> 1200000, totalDeductions |-> 0, regime |-> "new"])
        => result = [ taxableIncome |-> 1150000,
                      taxBeforeRebate |-> Rupees(82500),
                      rebate |-> Rupees(0),
                      taxAfterRebate |-> Rupees(82500),
                      surcharge |-> Rupees(0),
                      cess |-> Rupees(3300),
                      taxBeforeCess |-> Rupees(82500),
                      totalTax |-> 85800 ]

\* C5 witness: the call of scenario 1 has returned with a positive tax.
C5_Witness ==
    /\ called
    /\ args = [grossIncome |-> 1200000, totalDeductions |-> 0, regime |-> "new"]
    /\ result.totalTax > 0

\* C6: scenario 2, calculateTaxPayable(600000, 0, "new"), returns taxable
\* income 550,000, slab tax 12,500, rebate 12,500 and nothing payable.
C6_Scenario2 ==
    (called /\ args = [grossIncome |-> 600000, totalDeductions |-> 0, regime |-> "new"])
        => /\ result.taxableIncome = 550000
           /\ result.taxBeforeRebate = Rupees(12500)
           /\ result.rebate = Rupees(12500)
           /\ result.taxAfterRebate = Zero
           /\ result.surcharge = Zero
           /\ result.cess = Zero
           /\ result.totalTax = 0

\* C6 witness: the call of scenario 2 has returned and a rebate was granted.
C6_Witness ==
    /\ called
    /\ args = [grossIncome |-> 600000, totalDeductions |-> 0, regime |-> "new"]
    /\ MLt(Zero, result.rebate)

\* C7 as stated: for calculateTaxPayable(11000000, 0, "old") the surcharge rate
\* before marginal relief is 10%: rawSurcharge = 0.10 * taxAfterRebate.
C7_Rate10 ==
    (called /\ args = [grossIncome |-> 11000000, totalDeductions |-> 0, regime |-> "old"])
        => /\ locals.applicableRate = 10
           /\ locals.rawSurcharge = MTimesPct(result.taxAfterRebate, 10)

\* C7 amended: for calculateTaxPayable(11000000, 0, "old") the surcharge rate
\* before marginal relief is 15% (the 1Cr-2Cr tier): rawSurcharge =
\* 0.15 * taxAfterRebate = 464,625.
C7_Rate15 ==
    (called /\ args = [grossIncome |-> 11000000, totalDeductions |-> 0, regime |-> "old"])
        => /\ locals.applicableRate = 15
           /\ locals.rawSurcharge = MTimesPct(result.taxAfterRebate, 15)
           /\ locals.rawSurcharge = Rupees(464625)

\* C7 witness: the call of scenario 3 has returned with a surcharge.
C7_Witness ==
    /\ called
    /\ args = [grossIncome |-> 11000000, totalDeductions |-> 0, regime |-> "old"]
    /\ MLt(Zero, locals.rawSurcharge)

\* C8: Old regime, zero deductions: relief for the 10,000,000 threshold is
\* applied only for a gross income in (10,000,000, 10,500,000]; for a gross
\* income in (10,500,000, 20,000,000] no relief is applied and the surcharge is
\* exactly the selected rate (15%) times taxAfterRebate.
C8_Window ==
    (called /\ args.regime = "old" /\ args.totalDeductions = 0) =>
        /\ locals.reliefThreshold = 10000000
               => (10000000 < args.grossIncome /\ args.grossIncome <= 10500000)
        /\ (10500000 < args.grossIncome /\ args.grossIncome <= 20000000)
               => /\ locals.reliefThreshold = 0
                  /\ locals.applicableRate = 15
                  /\ result.surcharge = MTimesPct(result.taxAfterRebate, 15)

\* C8 witness: the first gross income past the window of the 10,000,000
\* threshold, with a surcharge and no relief.
C8_Witness ==
    /\ called
    /\ args = [grossIncome |-> 10500001, totalDeductions |-> 0, regime |-> "old"]
    /\ locals.reliefThreshold = 0
    /\ MLt(Zero, result.surcharge)

\* C9: calculateTaxPayable(0, 0, regime) returns 0 in every field, in both
\* regimes, and the standard deduction is not applied.
C9_ZeroIncome ==
    (called /\ args.grossIncome = 0 /\ args.totalDeductions = 0) =>
        /\ result = [ taxableIncome |-> 0, taxBeforeRebate |-> Zero, rebate |-> Zero,
                      taxAfterRebate |-> Zero, surcharge |-> Zero, cess |-> Zero,
                      taxBeforeCess |-> Zero, totalTax |-> 0 ]
        /\ locals.incomeAfterStdDed = 0

\* C9 witness: a call with zero income and zero deductions has returned.
C9_Witness ==
    /\ called
    /\ args.grossIncome = 0
    /\ args.totalDeductions = 0
    /\ args.regime = "old"

\* C10: rebate = min(taxBeforeRebate, rebateAmount) when taxableIncome <=
\* rebateLimit (700,000 / 25,000 New, 500,000 / 12,500 Old) and 0 otherwise,
\* and taxAfterRebate = max(0, taxBeforeRebate - rebate); in the New regime
\* taxable income 700,000 gets min(taxBeforeRebate, 25,000), 700,001 gets 0.
C10_RebateCliff ==
    called =>
        LET limit == IF args.regime = "new" THEN 700000 ELSE 500000
            amount == IF args.regime = "new" THEN 25000 ELSE 12500
        IN  /\ result.taxableIncome <= limit
                => result.rebate = MMin(result.taxBeforeRebate, Rupees(amount))
            /\ result.taxableIncome > limit => result.rebate = Zero
            /\ result.taxAfterRebate =
                   MMax(Zero, MSub(result.taxBeforeRebate, result.rebate))
            /\ (args.regime = "new" /\ result.taxableIncome = 700000)
                => result.rebate = Rupees(25000)
            /\ (args.regime = "new" /\ result.taxableIncome = 700001)
                => (result.rebate = Zero /\ MLt(Rupees(25000), result.taxAfterRebate))

\* C10 witness: New regime, taxable income exactly at the rebate limit, with
\* the full 25,000 rebate.
C10_Witness ==
    /\ called
    /\ args.regime = "new"
    /\ result.taxableIncome = 700000
    /\ result.rebate = Rupees(25000)

\* C11: in the New regime the result does not depend on totalDeductions: the
\* call with any other deductions value returns the same value in every field.
C11_NewIgnoresDeductions ==
    (called /\ args.regime = "new") =>
        \A d \in Deductions : calculateTaxPayable(args.grossIncome, d, "new") = result

\* C11 witness: a New-regime call with deductions of 1,000,000 that returned
\* a positive tax on a taxable income the deductions did not reduce.
C11_Witness ==
    /\ called
    /\ args.regime = "new"
    /\ args.totalDeductions = 1000000
    /\ args.grossIncome = 1200000
    /\ result.taxableIncome = 1150000
    /\ result.totalTax > 0

\* C13: for every gross income (zero and negative ones too), every
\* totalDeductions >= 0 and each regime, every field of the result is >= 0 and
\* rebate <= taxBeforeRebate.
C13_NonNegative ==
    called =>
        /\ result.taxableIncome >= 0
        /\ MLe(Zero, result.taxBeforeRebate)
        /\ MLe(Zero, result.rebate)
        /\ MLe(Zero, result.taxAfterRebate)
        /\ MLe(Zero, result.surcharge)
        /\ MLe(Zero, result.cess)
        /\ MLe(Zero, result.taxBeforeCess)
        /\ result.totalTax >= 0
        /\ MLe(result.rebate, result.taxBeforeRebate)

\* C13 witness: a call with a negative gross income has returned.
C13_Witness ==
    /\ called
    /\ args.grossIncome < 0 - 50000
    /\ args.totalDeductions > 0
    /\ args.regime = "old"
    /\ result.taxableIncome = 0

\* C14: the returned fields compose: taxAfterRebate = taxBeforeRebate - rebate,
\* taxBeforeCess = taxAfterRebate + surcharge, cess = taxBeforeCess / 25, and
\* totalTax is the integer nearest to taxBeforeCess + cess, halves rounded up
\* (-1/2 < totalTax - (taxBeforeCess + cess) <= 1/2).
C14_Composition ==
    called =>
        LET c == result.cess
            cessTimes25 == [w |-> c.w * 25 + ((c.u * 25) \div Unit), u |-> (c.u * 25) % Unit]
            diff == MSub(Rupees(result.totalTax), MAdd(result.taxBeforeCess, result.cess))
        IN  /\ result.taxAfterRebate = MSub(result.taxBeforeRebate, result.rebate)
            /\ result.taxBeforeCess = MAdd(result.taxAfterRebate, result.surcharge)
            /\ cessTimes25 = result.taxBeforeCess
            /\ \/ diff.w = 0 /\ 2 * diff.u <= Unit
               \/ diff.w = 0 - 1 /\ 2 * diff.u > Unit

\* C14 witness: a call with a surcharge whose taxBeforeCess + cess was rounded up.
C14_Witness ==
    /\ called
    /\ MLt(Zero, result.surcharge)
    /\ MLt(Zero, result.cess)
    /\ MLt(MAdd(result.taxBeforeCess, result.cess), Rupees(result.totalTax))

C15_NestingBounded ==
    /\ called =>
          LET inWindow ==
                  \E t \in Thresholds : InReliefWindow(locals.incomeForSurchargeRate, t)
          IN  /\ locals.nestedCalls =
                     (IF inWindow /\ MLt(Zero, result.taxAfterRebate) THEN 1 ELSE 0)
              /\ locals.nestingDepth <= 1
    /\ \A regime \in Regimes, t \in Thresholds :
          LET nested == CallLocals(t, 0, regime)
          IN  /\ nested.nestedCalls = 0
              /\ \A u \in Thresholds : ~InReliefWindow(nested.incomeForSurchargeRate, u)

\* C15 witness: a call whose relief loop made its nested computation and
\* applied relief has returned.
C15_Witness ==
    /\ called
    /\ locals.nestedCalls = 1
    /\ locals.nestingDepth = 1
    /\ locals.reliefThreshold = 20000000
    /\ args.regime = "old"

RECURSIVE ReferenceSchedule(_, _, _)
ReferenceSchedule(taxableIncome, slabs, i) ==
    IF i > Len(slabs) THEN Zero
    ELSE LET lower == IF i = 1 THEN 0 ELSE slabs[i - 1].rangeMax
             inBracket == IMax(0, IMin(taxableIncome, slabs[i].rangeMax) - lower)
         IN  MAdd(IntTimesPct(inBracket, slabs[i].rate),
                  ReferenceSchedule(taxableIncome, slabs, i + 1))

\* C17: calculateSlabTax returns the reference progressive schedule of the
\* regime's bracket table for the taxable income of every call, and at the New
\* regime's first bracket boundary 300,000 is taxed 0 and 300,001 is taxed 0.05.
C17_SlabSchedule ==
    /\ called =>
          result.taxBeforeRebate =
              ReferenceSchedule(result.taxableIncome,
                                RegimeData(args.regime, taxDataFY2024_25).slabs, 1)
    /\ calculateSlabTax(300000, taxDataFY2024_25.newRegime.slabs) = Zero
    /\ calculateSlabTax(300001, taxDataFY2024_25.newRegime.slabs)
           = [w |-> 0, u |-> Unit \div 20]

\* C17 witness: a New regime call with taxable income 900,001, one unit into
\* the fourth bracket, has returned 45,000.15.
C17_Witness ==
    /\ called
    /\ args.regime = "new"
    /\ result.taxableIncome = 900001
    /\ result.taxBeforeRebate = [w |-> 45000, u |-> (Unit \div 20) * 3]

\* C18: taxableIncome is 0 for grossIncome <= 0; for grossIncome > 0 it is
\* max(0, max(0, grossIncome - 50,000) - totalDeductions) in the Old regime and
\* max(0, grossIncome - 50,000) in the New regime.
C18_TaxableIncome ==
    called =>
        /\ args.grossIncome <= 0 =>
               /\ result.taxableIncome = 0
               /\ locals.incomeAfterStdDed = args.grossIncome
        /\ (args.grossIncome > 0 /\ args.regime = "old") =>
               result.taxableIncome =
                   IMax(0, IMax(0, args.grossIncome - 50000) - args.totalDeductions)
        /\ (args.grossIncome > 0 /\ args.regime = "new") =>
               result.taxableIncome = IMax(0, args.grossIncome - 50000)

\* C18 witness: an Old regime call with a positive gross income below the
\* standard deduction and positive deductions has returned taxable income 0.
C18_Witness ==
    /\ called
    /\ args.regime = "old"
    /\ args.grossIncome = 2
    /\ args.totalDeductions = 100
    /\ locals.incomeAfterStdDed = 0
    /\ result.taxableIncome = 0

\* The rate of the first tier, scanning ascending, whose incomeLimit is at least
\* income, capped by capForNewRegime in the New regime.
FirstTierRate(income, regime) ==
    LET tiers == SurchargeRatesAtLoad
        hit == { i \in 1..Len(tiers) : tiers[i].incomeLimit >= income }
        first == CHOOSE i \in hit : \A j \in hit : i <= j
    IN  IF regime = "new"
        THEN IMin(tiers[first].rate, tiers[first].capForNewRegime)
        ELSE tiers[first].rate

\* C19: when calculateSurcharge selects a rate (the tax before surcharge is
\* positive), the rate is that of the first tier whose incomeLimit is at least
\* incomeForSurchargeRate; an income of exactly 5,000,000 gets 0% and exactly
\* 10,000,000 gets 10%; the New regime rate never exceeds 25%, and an Old
\* regime income above 50,000,000 gets 37%.
C19_RateSelection ==
    /\ (called /\ MLt(Zero, result.taxAfterRebate)) =>
          /\ locals.applicableRate =
                 FirstTierRate(locals.incomeForSurchargeRate, args.regime)
          /\ args.regime = "new" => locals.applicableRate <= 25
          /\ (args.regime = "old" /\ locals.incomeForSurchargeRate > 50000000) =>
                 locals.applicableRate = 37
    /\ \A regime \in Regimes :
          /\ ApplicableRate(5000000, regime) = 0
          /\ ApplicableRate(10000000, regime) = 10

\* C19 witness: a New regime call with surcharge income above 50,000,000 has
\* returned with the rate capped at 25%.
C19_Witness ==
    /\ called
    /\ args.regime = "new"
    /\ locals.incomeForSurchargeRate > 50000000
    /\ locals.applicableRate = 25
    /\ MLt(Zero, result.surcharge)

\* C20: the tier and the relief window are determined in the New regime by
\* max(0, grossIncome - 50,000) and in the Old regime by grossIncome; in the Old
\* regime, for the same grossIncome and any other totalDeductions, the surcharge
\* income is the same and the rate selected, when one is, is the rate of the
\* tier of grossIncome.
C20_SurchargeBase ==
    called =>
        LET base == IF args.regime = "old" THEN args.grossIncome
                    ELSE IMax(0, args.grossIncome - 50000)
        IN  /\ args.grossIncome > 0 => locals.incomeForSurchargeRate = base
            /\ ApplicableRate(locals.incomeForSurchargeRate, args.regime)
                   = ApplicableRate(base, args.regime)
            /\ \A t \in Thresholds :
                   InReliefWindow(locals.incomeForSurchargeRate, t) = InReliefWindow(base, t)
            /\ MLt(Zero, result.taxAfterRebate) =>
                   locals.applicableRate = ApplicableRate(base, args.regime)
            /\ args.regime = "old" =>
                   \A d \in Deductions :
                       LET other == TaxPayableRun(args.grossIncome, d, "old", taxDataFY2024_25)
                       IN  /\ other.locals.incomeForSurchargeRate = args.grossIncome
                           /\ MLt(Zero, other.result.taxAfterRebate) =>
                                  other.locals.applicableRate
                                      = ApplicableRate(args.grossIncome, "old")

\* C20 witness: an Old regime call with gross income just above 5,000,000 and
\* deductions that bring the taxable income below 5,000,000 has returned with
\* the 10% rate.
C20_Witness ==
    /\ called
    /\ args.regime = "old"
    /\ args.grossIncome = 5000002
    /\ args.totalDeductions = 1000000
    /\ result.taxableIncome < 5000000
    /\ locals.applicableRate = 10
    /\ MLt(Zero, result.surcharge)

\* C21: when taxAfterRebate <= 0 the surcharge is 0, no tier was looked up and
\* no marginal-relief recomputation was made; and when incomeForSurchargeRate
\* is at most 5,000,000 the surcharge is 0.
C21_ShortCircuit ==
    called =>
        /\ MLe(result.taxAfterRebate, Zero) =>
               /\ result.surcharge = Zero
               /\ ~locals.rateLookedUp
               /\ locals.nestedCalls = 0
        /\ locals.incomeForSurchargeRate <= 5000000 => result.surcharge = Zero

\* C21 witness: an Old regime call whose surcharge income lies in the relief
\* window of 5,000,000 and whose deductions leave no tax has returned.
C21_Witness ==
    /\ called
    /\ args.regime = "old"
    /\ args.grossIncome = 5000001
    /\ args.totalDeductions = 5000000
    /\ result.taxAfterRebate = Zero
    /\ InReliefWindow(locals.incomeForSurchargeRate, 5000000)
    /\ result.surcharge = Zero

\* C22 as stated: computing the surcharge for one input invokes the surcharge
\* computation once only, and taxOnThreshold is the slab tax (after rebate) of
\* the threshold computation, with no surcharge in it.
C22_NoNestedSurcharge ==
    called =>
        /\ locals.surchargeCalls <= 1
        /\ locals.windowThreshold # 0 =>
               locals.taxOnThreshold =
                   calculateTaxPayable(locals.windowThreshold, 0, args.regime).taxAfterRebate

\* C22 amended: the recomputation of taxOnThreshold is a calculateTaxPayableInternal
\* call at the threshold, which invokes calculateSurcharge once more, so that
\* taxOnThreshold is the tax after rebate at the threshold plus the surcharge on
\* it at the rate of the threshold's own tier; that nested surcharge computation
\* starts no recomputation, so calculateSurcharge runs at most twice per call.
C22_NestedSurchargeOnce ==
    called =>
        /\ locals.surchargeCalls = 1 + locals.nestedCalls
        /\ locals.surchargeCalls <= 2
        /\ locals.windowThreshold # 0 =>
               LET nested == TaxPayableRun(locals.windowThreshold, 0, args.regime,
                                           taxDataFY2024_25)
                   atThreshold == nested.result.taxAfterRebate
                   rate == FirstTierRate(nested.locals.incomeForSurchargeRate, args.regime)
               IN  /\ locals.surchargeCalls = 2
                   /\ nested.locals.surchargeCalls = 1
                   /\ locals.taxOnThreshold = MAdd(atThreshold, MTimesPct(atThreshold, rate))

\* C22 witness: a call in the relief window of 20,000,000 has returned; its
\* taxOnThreshold came from a second calculateSurcharge call and is larger than
\* the tax after rebate at the threshold.
C22_Witness ==
    /\ called
    /\ locals.windowThreshold = 20000000
    /\ locals.surchargeCalls = 2
    /\ MLt(calculateTaxPayable(20000000, 0, args.regime).taxAfterRebate,
           locals.taxOnThreshold)

\* C23: when incomeForSurchargeRate lies in (T, 1.05 T] for a finite threshold
\* T, with taxOnThreshold the taxBeforeCess of the computation at T with no
\* deductions, taxIncrease = taxAfterRebate + rawSurcharge - taxOnThreshold and
\* incomeIncrease = incomeForSurchargeRate - T, the surcharge returned is
\* max(0, rawSurcharge - (taxIncrease - incomeIncrease)) if taxIncrease >
\* incomeIncrease, and rawSurcharge otherwise; and the surcharge returned is
\* always between 0 and rawSurcharge.
C23_ReliefFormula ==
    called =>
        /\ MLe(Zero, result.surcharge)
        /\ MLe(result.surcharge, locals.rawSurcharge)
        /\ \A T \in Thresholds :
               InReliefWindow(locals.incomeForSurchargeRate, T) =>
                   LET taxOnThreshold ==
                           calculateTaxPayableInternal(T, 0, args.regime,
                                                       taxDataFY2024_25).taxBeforeCess
                       taxIncrease ==
                           MSub(MAdd(result.taxAfterRebate, locals.rawSurcharge),
                                taxOnThreshold)
                       incomeIncrease == Rupees(locals.incomeForSurchargeRate - T)
                   IN  result.surcharge =
                           IF MLt(incomeIncrease, taxIncrease)
                           THEN MMax(Zero, MSub(locals.rawSurcharge,
                                                MSub(taxIncrease, incomeIncrease)))
                           ELSE locals.rawSurcharge

\* C23 witness: a call in the relief window of 10,000,000 has returned with a
\* surcharge that relief cut to below the raw surcharge but not to 0.
C23_Witness ==
    /\ called
    /\ InReliefWindow(locals.incomeForSurchargeRate, 10000000)
    /\ locals.reliefThreshold = 10000000
    /\ MLt(Zero, result.surcharge)
    /\ MLt(result.surcharge, locals.rawSurcharge)

\* A bracket table starts at 0, ends at Infinity, has strictly ascending
\* rangeMax, no gap or overlap between consecutive brackets, and
\* non-decreasing rates.
BracketTableOK(slabs) ==
    /\ Len(slabs) >= 1
    /\ slabs[1].rangeMin = 0
    /\ slabs[Len(slabs)].rangeMax = Infinity
    /\ \A i \in 1..(Len(slabs) - 1) :
          /\ slabs[i].rangeMax < slabs[i + 1].rangeMax
          /\ slabs[i + 1].rangeMin = slabs[i].rangeMax + 1
          /\ slabs[i].rate <= slabs[i + 1].rate

\* C24: both regimes' bracket tables are well formed in that sense, and the
\* surcharge table has exactly 5 tiers with strictly ascending incomeLimit
\* ending in Infinity and capForNewRegime <= rate in every tier.
C24_Configuration ==
    /\ BracketTableOK(taxDataFY2024_25.newRegime.slabs)
    /\ BracketTableOK(taxDataFY2024_25.oldRegime.slabs)
    /\ Len(surchargeRatesFY2024_25) = 5
    /\ surchargeRatesFY2024_25[5].incomeLimit = Infinity
    /\ \A i \in 1..4 :
          surchargeRatesFY2024_25[i].incomeLimit < surchargeRatesFY2024_25[i + 1].incomeLimit
    /\ \A i \in 1..5 :
          surchargeRatesFY2024_25[i].capForNewRegime <= surchargeRatesFY2024_25[i].rate

\* C24 witness: a New regime call that read the last tier, whose cap is below
\* its rate, has returned.
C24_Witness ==
    /\ called
    /\ args.regime = "new"
    /\ locals.incomeForSurchargeRate > surchargeRatesFY2024_25[4].incomeLimit
    /\ locals.applicableRate = surchargeRatesFY2024_25[5].capForNewRegime
    /\ locals.applicableRate < surchargeRatesFY2024_25[5].rate

\* C25: calculateSlabTax on a bracket list whose last rangeMax U is finite, with
\* taxableIncome > U, returns the slab tax of income U: the residual above U is
\* untaxed, and no error is raised.
C25_NonCovering ==
    LET slabs == slabCall.slabs
        U == slabs[Len(slabs)].rangeMax
    IN  (slabCall.returned /\ U # Infinity /\ slabCall.taxableIncome > U) =>
            /\ slabCall.tax = calculateSlabTax(U, slabs)
            /\ slabCall.tax = ReferenceSchedule(U, slabs, 1)

\* C25 witness: a call with the first three New regime brackets (up to
\* 900,000) and taxable income 1,500,001 has returned 45,000.
C25_Witness ==
    /\ slabCall.returned
    /\ Len(slabCall.slabs) = 3
    /\ slabCall.slabs[3].rangeMax = 900000
    /\ slabCall.taxableIncome = 1500001
    /\ slabCall.tax = Rupees(45000)

\* The relief loop without its break: relief applied for every threshold whose
\* window holds the income, one after another.
RECURSIVE ReliefEveryThreshold(_, _, _, _, _)
ReliefEveryThreshold(totalIncome, taxBeforeSurcharge, surcharge, regime, i) ==
    IF i > Len(surchargeRatesFY2024_25) THEN surcharge
    ELSE
        LET threshold == surchargeRatesFY2024_25[i].incomeLimit
            taxOnThreshold ==
                calculateTaxPayableInternal(threshold, 0, regime,
                                            taxDataFY2024_25).taxBeforeCess
            taxIncrease == MSub(MAdd(taxBeforeSurcharge, surcharge), taxOnThreshold)
            incomeIncrease == Rupees(totalIncome - threshold)
        IN  IF threshold # 0 /\ threshold # Infinity
               /\ InReliefWindow(totalIncome, threshold)
               /\ MLt(incomeIncrease, taxIncrease)
            THEN ReliefEveryThreshold(totalIncome, taxBeforeSurcharge,
                     MMax(Zero, MSub(surcharge, MSub(taxIncrease, incomeIncrease))),
                     regime, i + 1)
            ELSE ReliefEveryThreshold(totalIncome, taxBeforeSurcharge, surcharge,
                                      regime, i + 1)

\* C26: the relief windows of the finite thresholds are pairwise disjoint, so
\* the surcharge income of a call lies in at most one; the call computed relief
\* against at most one threshold, and its surcharge is the one that applying
\* relief for every matching threshold gives.
C26_OneThreshold ==
    /\ \A t1 \in Thresholds, t2 \in Thresholds : t1 < t2 => WindowEnd(t1) < t2
    /\ called =>
          /\ Cardinality({ t \in Thresholds :
                             InReliefWindow(locals.incomeForSurchargeRate, t) }) <= 1
          /\ locals.nestedCalls <= 1
          /\ MLt(Zero, result.taxAfterRebate) =>
                 result.surcharge =
                     MMax(Zero, ReliefEveryThreshold(locals.incomeForSurchargeRate,
                                                     result.taxAfterRebate,
                                                     locals.rawSurcharge, args.regime, 1))

\* C26 witness: a call at the upper end of the window of 10,000,000 has
\* returned with one recomputation made.
C26_Witness ==
    /\ called
    /\ locals.incomeForSurchargeRate = WindowEnd(10000000)
    /\ locals.windowThreshold = 10000000
    /\ locals.nestedCalls = 1

\* C27: the taxOnThreshold used for relief at threshold T equals the
\* taxBeforeCess that calculateTaxPayable returns, in the same regime with no
\* deductions, for the gross income whose incomeForSurchargeRate is exactly T.
C27_ThresholdReference ==
    (called /\ locals.windowThreshold # 0) =>
        LET atThreshold ==
                TaxPayableRun(GrossForSurchargeIncome(locals.windowThreshold), 0, args.regime,
                              taxDataFY2024_25)
        IN  /\ atThreshold.locals.incomeForSurchargeRate = locals.windowThreshold
            /\ locals.taxOnThreshold = atThreshold.result.taxBeforeCess

\* C28: in the Old regime, for the same grossIncome, no call with larger
\* deductions returns a larger totalTax.
C28_DeductionsNeverRaiseTax ==
    (called /\ args.regime = "old") =>
        \A d \in Deductions :
            d >= args.totalDeductions =>
                calculateTaxPayable(args.grossIncome, d, "old").totalTax <= result.totalTax

\* C28 witness: an Old regime call inside the relief window of 5,000,000 with
\* deductions of 1,000,000 has returned less tax than the call with none.
C28_Witness ==
    /\ called
    /\ args.regime = "old"
    /\ args.grossIncome = 5000002
    /\ args.totalDeductions = 1000000
    /\ InReliefWindow(locals.incomeForSurchargeRate, 5000000)
    /\ result.totalTax < calculateTaxPayable(5000002, 0, "old").totalTax

\* C29: when taxableIncome is at most the regime's rebate limit (700,000 New,
\* 500,000 Old) the slab tax is at most the maximum rebate (25,000 New, 12,500
\* Old), the rebate equals the slab tax, and taxAfterRebate, surcharge, cess
\* and totalTax are 0.
C29_FullRebate ==
    called =>
        LET limit == IF args.regime = "new" THEN 700000 ELSE 500000
            amount == IF args.regime = "new" THEN 25000 ELSE 12500
        IN  result.taxableIncome <= limit =>
                /\ MLe(result.taxBeforeRebate, Rupees(amount))
                /\ result.rebate = result.taxBeforeRebate
                /\ result.taxAfterRebate = Zero
                /\ result.surcharge = Zero
                /\ result.cess = Zero
                /\ result.taxBeforeCess = Zero
                /\ result.totalTax = 0

\* C29 witness: a New regime call with taxable income exactly 700,000 has
\* returned: slab tax 25,000, all of it rebated.
C29_Witness ==
    /\ called
    /\ args.regime = "new"
    /\ result.taxableIncome = 700000
    /\ result.taxBeforeRebate = Rupees(25000)
    /\ result.rebate = Rupees(25000)
    /\ result.totalTax = 0

\* C30: when a request with income > 50,000 and a deductions text that does
\* not mention the standard deduction has been processed, the Old regime
\* taxableIncome is grossIncome minus the itemised deductions minus a single
\* 50,000 standard deduction (floored at 0).
C30_StandardDeductionOnce ==
    ( /\ estimate.processed
      /\ request.income > 50000
      /\ \A i \in DOMAIN request.deductions :
             ~Includes(request.deductions[i], "standard deduction") ) =>
        estimate.taxOld.taxableIncome =
            IMax(0, request.income
                        - SumEntries(request.deductions, 1, request.path) - 50000)

====
